---- MODULE Spec2Model ----
(***************************************************************************)
(* Model of points-tracker.pyw: the points ledger kept in points.db (one   *)
(* table "points" with columns id, date, points), the handlers that change *)
(* it, and the weekly heatmap that displays it.                            *)
(*                                                                         *)
(* A date string is modelled as a record [y, m, d, pad]: the three numeric *)
(* fields of the text "Y-M-D" and whether month and day are written with   *)
(* two digits ("2024-02-03", pad = TRUE) or without a leading zero         *)
(* ("2024-2-3", pad = FALSE).  Both spellings are accepted by strptime and *)
(* are different strings, hence different keys of the table.               *)
(* The text of the points field is a sequence of characters.               *)
(***************************************************************************)
EXTENDS Integers, Sequences, FiniteSets, TLC

\* ------------------------------------------------------------------ bounds
MaxAmount == 2
MaxTotal == 3
MaxShifts == 3

\* ------------------------------------------------------- program constants
SpinMinimum == 0
SpinMaximum == 10000
DefaultPointsPerDay == 10
MinimumWidth == 350
MinimumHeight == 40
MaxIntensity == 155
Spacing == 5
FadeStep == 30
MaxOpacity == 255

\* ------------------------------------------------------------------- state
VARIABLES
    app,                    \* position of the process: "stopped", "initialized", "running"
    db_file,                \* os.path.exists('points.db')
    db_table,               \* the table points exists in points.db
    db_rows,                \* the rows of the table in rowid order, each [date, points]
    points_per_day,         \* PointsTracker.points_per_day (saved in settings.json)
    points_data,            \* HeatmapCalendar.points_data
    target_points_per_day,  \* HeatmapCalendar.target_points_per_day
    current_week_start,     \* HeatmapCalendar.current_week_start, as a day number
    width,                  \* HeatmapCalendar.width()
    height,                 \* HeatmapCalendar.height()
    color_value,            \* HeatmapCalendar.color_value
    drawn,                  \* what the last paintEvent drew in the 7 squares
    mouse,                  \* the position of the last mouseMoveEvent
    hovered_square,         \* HeatmapCalendar.hovered_square
    highlight_opacity,      \* HeatmapCalendar.highlight_opacity
    fade_in_timer,          \* HeatmapCalendar.fade_in_timer is active
    tooltip,                \* the tooltip shown, <<>> when hidden
    nexts,                  \* show_next_week calls since the window was constructed
    previouses,             \* show_previous_week calls since the window was constructed
    date_entry,             \* PointsTracker.date_entry.text()
    press,                  \* the last mousePressEvent (see Press)
    dialogs,                \* the message boxes shown by the last update_points call
    connected,              \* whether the last update_points call opened points.db
    last                    \* the last update_points call (see Call)

dbVars == <<db_file, db_table, db_rows>>

callVars == <<dialogs, connected, last>>

geometryVars == <<width, height>>

paintVars == <<color_value, drawn>>

hoverVars == <<mouse, hovered_square, highlight_opacity, fade_in_timer, tooltip>>

weekVars == <<nexts, previouses>>

clickVars == <<date_entry, press>>

vars == <<app, dbVars, points_per_day, points_data, target_points_per_day,
          current_week_start, geometryVars, paintVars, hoverVars, weekVars,
          clickVars, callVars>>

\* ------------------------------------------------------------ date strings
DateText(y, m, d, pad) == [y |-> y, m |-> m, d |-> d, pad |-> pad]

IsLeap(y) == (y % 4 = 0) /\ ((y % 100 # 0) \/ (y % 400 = 0))

DaysInMonth(y, m) ==
    IF m = 2 THEN (IF IsLeap(y) THEN 29 ELSE 28)
    ELSE IF m \in {4, 6, 9, 11} THEN 30 ELSE 31

is_valid_date_format_only(date_str) ==
    /\ date_str.y \in 0..9999
    /\ date_str.m \in 1..12
    /\ date_str.d \in 1..31

\* datetime.strptime(date_str, "%Y-%m-%d") does not raise ValueError
is_valid_date(date_str) ==
    /\ date_str.y \in 1..9999
    /\ date_str.m \in 1..12
    /\ date_str.d \in 1..DaysInMonth(date_str.y, date_str.m)

\* the texts the date field is given in the model
DateInputs ==
    { DateText(2024, 2, 29, TRUE),
      DateText(2024, 2, 29, FALSE),
      DateText(2024, 2, 30, TRUE),
      DateText(2023, 2, 29, TRUE) }

ValidDateInputs == { d \in DateInputs : is_valid_date(d) }

\* ------------------------------------------------------------------- days
\* A datetime is modelled by its day number: day 0 is Monday 2023-01-02.
\* The time of day, which strftime("%Y-%m-%d") drops, is left out.
RECURSIVE DateFrom(_, _, _)
\* the date n days after the first of month m of year y
DateFrom(y, m, n) ==
    IF n < DaysInMonth(y, m) THEN DateText(y, m, n + 1, TRUE)
    ELSE IF m = 12 THEN DateFrom(y + 1, 1, n - DaysInMonth(y, m))
    ELSE DateFrom(y, m + 1, n - DaysInMonth(y, m))

\* (day).strftime("%Y-%m-%d")
strftime(day) == DateFrom(2023, 1, day + 1)

\* datetime.weekday(): Monday is 0
weekday(day) == day % 7

\* datetime.now() in the model: Thursday 2024-02-29
Today == 423

\* datetime.now() - timedelta(days=datetime.now().weekday())
WeekStart(now) == now - weekday(now)

\* ------------------------------------------------------------ points texts
Digits == <<"0", "1", "2", "3", "4", "5", "6", "7", "8", "9">>

DigitChars == { Digits[i] : i \in 1..10 }

DigitValue(c) == (CHOOSE i \in 1..10 : Digits[i] = c) - 1

RECURSIVE SpinText(_)
\* QSpinBox.text() for the value n: its decimal digits
SpinText(n) ==
    IF n < 10 THEN <<Digits[n + 1]>>
    ELSE Append(SpinText(n \div 10), Digits[(n % 10) + 1])

\* str.isdigit()
isdigit(s) == Len(s) > 0 /\ \A i \in 1..Len(s) : s[i] \in DigitChars

RECURSIVE int(_)
\* int(points) for a string of digits
int(s) ==
    IF Len(s) = 0 THEN 0
    ELSE 10 * int(SubSeq(s, 1, Len(s) - 1)) + DigitValue(s[Len(s)])

\* texts that are not the text of any spin box value
BadTexts == { <<>>, <<"-", "1">> }

\* the values of the points spin box, up to the model's bound
SpinValues ==
    SpinMinimum..(IF MaxAmount < SpinMaximum THEN MaxAmount ELSE SpinMaximum)

PointsInputs == { SpinText(n) : n \in SpinValues } \cup BadTexts

\* ------------------------------------------------------------ the database
Row(date, points) == [date |-> date, points |-> points]

Matching(rows, date) == { i \in 1..Len(rows) : rows[i].date = date }

\* cursor.execute("SELECT points FROM points WHERE date = ?"); cursor.fetchone()
existing_row(rows, date) ==
    IF Matching(rows, date) = {} THEN <<>>
    ELSE LET i == CHOOSE k \in Matching(rows, date) :
                      \A j \in Matching(rows, date) : k <= j
         IN  <<rows[i].points>>

\* UPDATE points SET points = ? WHERE date = ?
SqlUpdate(rows, new_points, date) ==
    [i \in 1..Len(rows) |->
        IF rows[i].date = date THEN Row(date, new_points) ELSE rows[i]]

\* DELETE FROM points WHERE date = ?
SqlDelete(rows, date) == SelectSeq(rows, LAMBDA r : r.date # date)

\* INSERT INTO points (date, points) VALUES (?, ?)
SqlInsert(rows, date, points) == Append(rows, Row(date, points))

\* {row[0]: row[1] for row in rows}: the last row of a date wins
RowsToDict(rows) ==
    [date \in { rows[i].date : i \in 1..Len(rows) } |->
        LET i == CHOOSE k \in Matching(rows, date) :
                     \A j \in Matching(rows, date) : j <= k
        IN  rows[i].points]

\* dict.get(date, 0)
Get(dict, date) == IF date \in DOMAIN dict THEN dict[date] ELSE 0

EmptyDict == [date \in {} |-> 0]

\* ------------------------------------------------- double-precision floats
\* Python's float is the IEEE 754 binary64: a 53-bit significand, results
\* rounded to the nearest value, ties to the even significand.  A natural
\* number too wide for the model's integers is kept as its bits, the least
\* significant first; a float is [m, e] with m such a number of exactly
\* SignificandBits bits and value m * 2^e.
SignificandBits == 53

RECURSIVE NatBits(_)
NatBits(n) == IF n = 0 THEN <<>> ELSE <<n % 2>> \o NatBits(n \div 2)

RECURSIVE BitsValue(_)
BitsValue(b) == IF Len(b) = 0 THEN 0 ELSE b[1] + 2 * BitsValue(Tail(b))

Zeros(k) == [i \in 1..k |-> 0]

\* without the zero bits at the most significant end
StripLeading(b) ==
    LET ones == { i \in 1..Len(b) : b[i] = 1 }
    IN  IF ones = {} THEN <<>>
        ELSE SubSeq(b, 1, CHOOSE i \in ones : \A k \in ones : k <= i)

\* bits are added ChunkBits at a time
ChunkBits == 16

\* the value of the c-th chunk of the bits a
ChunkAt(a, c) ==
    LET from == ChunkBits * (c - 1) + 1
        to == IF ChunkBits * c < Len(a) THEN ChunkBits * c ELSE Len(a)
    IN  IF from > Len(a) THEN 0 ELSE BitsValue(SubSeq(a, from, to))

\* the n low bits of v
FixedBits(v, n) == [i \in 1..n |-> (v \div (2 ^ (i - 1))) % 2]

RECURSIVE AddFrom(_, _, _, _, _)
\* a + b from chunk c on, with the carry into it and the sum bits below it
AddFrom(a, b, c, carry, sum) ==
    IF ChunkBits * (c - 1) >= Len(a) /\ ChunkBits * (c - 1) >= Len(b)
    THEN sum \o NatBits(carry)
    ELSE LET t == ChunkAt(a, c) + ChunkAt(b, c) + carry
         IN  AddFrom(a, b, c + 1, t \div (2 ^ ChunkBits),
                     sum \o FixedBits(t % (2 ^ ChunkBits), ChunkBits))

AddBitsOf(a, b) == StripLeading(AddFrom(a, b, 1, 0, <<>>))

AddBits(x, y) == CHOOSE r \in { AddBitsOf(a, b) : a \in {x}, b \in {y} } : TRUE

RECURSIVE MulBits(_, _)
\* the bits of b * n
MulBits(b, n) ==
    IF n = 0 THEN <<>>
    ELSE LET twice == <<0>> \o MulBits(b, n \div 2)
         IN  IF n % 2 = 1 THEN AddBits(b, twice) ELSE StripLeading(twice)

RECURSIVE PowerOfTwoMod(_, _)
\* 2^i mod g, by repeated squaring
PowerOfTwoMod(i, g) ==
    IF i = 0 THEN 1 % g
    ELSE LET h == PowerOfTwoMod(i \div 2, g)
         IN  (((h * h) % g) * (IF i % 2 = 1 THEN 2 ELSE 1)) % g

\* (p * 2^i) mod g: the remainder of the long division of p by g after i
\* bits of the fraction
Remainder(p, g, i) == ((p % g) * PowerOfTwoMod(i, g)) % g

\* floor(p * 2^k / g) as [q, r]: the bits of the quotient, the k bits of the
\* fraction below those of p \div g, and the remainder
QuotientBits(p, g, k) ==
    [q |-> StripLeading([j \in 1..k |-> (2 * Remainder(p, g, k - j)) \div g]
                        \o NatBits(p \div g)),
     r |-> Remainder(p, g, k)]

\* the float nearest to (n + f) * 2^e, where n has the bits b, more than
\* SignificandBits of them, and 0 <= f < 1 with f > 0 iff inexact
RoundBits(b, inexact, e) ==
    LET d == Len(b) - SignificandBits
        kept == SubSeq(b, d + 1, Len(b))
        half == b[d] = 1
        sticky == inexact \/ \E i \in 1..(d - 1) : b[i] = 1
        up == half /\ (sticky \/ kept[1] = 1)
        m == IF up THEN AddBits(kept, <<1>>) ELSE kept
    IN  IF Len(m) > SignificandBits
        THEN [m |-> Tail(m), e |-> e + d + 1]
        ELSE [m |-> m, e |-> e + d]

RoundToFloat(x, inexact, e) == CHOOSE r \in { RoundBits(b, inexact, e) : b \in {x} } : TRUE

\* p / g for integers p > 0 and g > 0: the correctly rounded quotient
FloatDiv(p, g) ==
    LET k == SignificandBits + 1 + Len(NatBits(g))
        division == QuotientBits(p, g, k)
    IN  RoundToFloat(division.q, division.r # 0, -k)

\* x * n for a float x and an integer n > 0 that is a float exactly
FloatMulInt(x, n) == RoundToFloat(Zeros(1) \o MulBits(x.m, n), FALSE, x.e - 1)

\* min(cap, int(x)) for a float x > 0: int() drops the fraction
MinIntFloat(cap, x) ==
    IF x.e >= 0 THEN cap
    ELSE LET whole == IF -x.e >= Len(x.m) THEN <<>>
                      ELSE SubSeq(x.m, 1 - x.e, Len(x.m))
         IN  IF Len(whole) > Len(NatBits(cap)) THEN cap
             ELSE IF BitsValue(whole) < cap THEN BitsValue(whole) ELSE cap

\* ----------------------------------------------------------- update_points
Faults == {"none", "connect", "select", "write", "commit", "refresh"}

Branch(rows, dialog, wrote) == [rows |-> rows, dialog |-> dialog, wrote |-> wrote]

\* lines 531-534: the date has a row and points are added to it
add_existing_overwrite(rows, existing, date, points) ==
    Branch(SqlUpdate(rows, int(points), date), "Updated", TRUE)

add_existing_insert(rows, existing, date, points) ==
    Branch(SqlInsert(rows, date, existing[1] + int(points)), "Updated", TRUE)

add_existing(rows, existing, date, points) ==
    LET new_points == existing[1] + int(points)
    IN  Branch(SqlUpdate(rows, new_points, date), "Updated", TRUE)

\* lines 535-542: the date has a row and points are removed from it
remove_existing_keeps_zero(rows, existing, date, points) ==
    LET new_points == existing[1] - int(points) IN
    IF new_points < 0
    THEN Branch(SqlDelete(rows, date), "Deleted", TRUE)
    ELSE Branch(SqlUpdate(rows, new_points, date), "Updated", TRUE)

remove_existing(rows, existing, date, points) ==
    LET new_points == existing[1] - int(points) IN
    IF new_points <= 0
    THEN Branch(SqlDelete(rows, date), "Deleted", TRUE)
    ELSE Branch(SqlUpdate(rows, new_points, date), "Updated", TRUE)

\* lines 543-548: the date has no row
on_absent_always_inserts(rows, operation, date, points) ==
    Branch(SqlInsert(rows, date, operation * int(points)), "Added", TRUE)

on_absent(rows, operation, date, points) ==
    IF operation = 1
    THEN Branch(SqlInsert(rows, date, int(points)), "Added", TRUE)
    ELSE Branch(rows, "NoPoints", FALSE)

\* the statements between the SELECT and the commit: the rows as the open
\* transaction sees them, the message box shown, and whether a statement
\* wrote to the table
apply_operation(rows, operation, date, points) ==
    LET existing == existing_row(rows, date) IN
    IF existing # <<>> THEN
        IF operation = 1
        THEN add_existing(rows, existing, date, points)
        ELSE remove_existing(rows, existing, date, points)
    ELSE on_absent(rows, operation, date, points)

Outcome(rows, shown, opened, refreshed, raised) ==
    [rows |-> rows, dialogs |-> shown, connected |-> opened,
     refreshed |-> refreshed, raised |-> raised]

\* update_points(operation, date) with the text points in the points field;
\* fault names the statement that raises sqlite3.Error, if any.  The result
\* is the committed table, the message boxes shown in order, whether
\* sqlite3.connect was called, whether the heatmap was refreshed, and whether
\* an exception left the handler.
update_points(rows, operation, date, points, fault) ==
    IF ~is_valid_date(date) THEN
        Outcome(rows, <<"InvalidDate">>, FALSE, FALSE, FALSE)
    ELSE IF ~isdigit(points) THEN
        Outcome(rows, <<"InvalidAmount">>, FALSE, FALSE, FALSE)
    ELSE IF fault = "connect" THEN
        \* conn is unbound in the finally clause: conn.close() raises
        Outcome(rows, <<"StorageFailure">>, TRUE, FALSE, TRUE)
    ELSE IF fault = "select" THEN
        Outcome(rows, <<"StorageFailure">>, TRUE, FALSE, FALSE)
    ELSE
        LET b == apply_operation(rows, operation, date, points) IN
        IF fault = "write" THEN
            Outcome(rows, <<"StorageFailure">>, TRUE, FALSE, FALSE)
        ELSE IF fault = "commit" THEN
            \* conn.close() without a commit rolls the transaction back
            Outcome(rows, <<b.dialog, "StorageFailure">>, TRUE, FALSE, FALSE)
        ELSE IF fault = "refresh" THEN
            Outcome(b.rows, <<b.dialog, "StorageFailure">>, TRUE, FALSE, FALSE)
        ELSE
            Outcome(b.rows, <<b.dialog>>, TRUE, TRUE, FALSE)

\* the faults that can happen on a call: none before the database is opened,
\* a failing write only where a statement writes
FaultApplies(rows, operation, date, points, fault) ==
    \/ fault = "none"
    \/ /\ is_valid_date(date)
       /\ isdigit(points)
       /\ fault = "write" => apply_operation(rows, operation, date, points).wrote

WithinBounds(rows) == \A i \in 1..Len(rows) : rows[i].points <= MaxTotal

\* a call of update_points: its arguments, the statement that failed, the
\* rows before the call, and in added the amount p when the call before it
\* was an add of p that inserted the row of the same date (otherwise -1)
Call(operation, date, points, fault, before, added) ==
    [operation |-> operation, date |-> date, points |-> points,
     fault |-> fault, before |-> before, added |-> added]

NoCall == Call(0, DateText(0, 1, 1, TRUE), <<>>, "none", <<>>, -1)

\* the call went through: valid input and no database error
Applied(call) ==
    /\ call.operation # 0
    /\ is_valid_date(call.date)
    /\ isdigit(call.points)
    /\ call.fault = "none"

JustAdded(call, date) ==
    IF /\ Applied(call)
       /\ call.operation = 1
       /\ call.date = date
       /\ existing_row(call.before, date) = <<>>
    THEN int(call.points)
    ELSE -1

\* ---------------------------------------------------------------- heatmap
\* size = min(self.width() // 6, self.height() - 5)
SquareSize(w, h) == IF w \div 6 < h - 5 THEN w \div 6 ELSE h - 5

\* start_x = (self.width() - (size * 7 + spacing * 6)) // 2
StartX(w, h) == (w - (SquareSize(w, h) * 7 + Spacing * 6)) \div 2

\* y = (self.height() - size) // 4
TopY(w, h) == (h - SquareSize(w, h)) \div 4

\* no mousePressEvent has been delivered yet
NoPress ==
    [square |-> -1, modifiers |-> {}, button |-> "none", before |-> <<>>]

\* no mouseMoveEvent has been delivered yet
NoMouse == <<-1, -1>>

\* 0 <= y <= event.y() < y + size
InBand(w, h, ey) ==
    /\ 0 <= TopY(w, h)
    /\ TopY(w, h) <= ey
    /\ ey < TopY(w, h) + SquareSize(w, h)

\* square_index = x // adjusted_width, with x = event.x() - start_x
SquareIndex(w, h, ex) == (ex - StartX(w, h)) \div (SquareSize(w, h) + Spacing)

\* the date of square i and its points in the heatmap's mapping
SquareDate(i) == strftime(current_week_start + i)

SquarePoints(i) == Get(points_data, SquareDate(i))

color_intensity_rounded(points, target) ==
    IF target > 0
    THEN LET rounded == (2 * MaxIntensity * points + target) \div (2 * target)
         IN  IF rounded < MaxIntensity THEN rounded ELSE MaxIntensity
    ELSE 0

\* lines 185-188: min(155, int((points / self.target_points_per_day) * 155)),
\* or 0 without a target, for points > 0
color_intensity(points, target) ==
    IF target > 0
    THEN MinIntFloat(MaxIntensity, FloatMulInt(FloatDiv(points, target), MaxIntensity))
    ELSE 0

\* the squares with points, in the order they are painted
PaintedWithPoints == { i \in 0..6 : SquarePoints(i) > 0 }

\* paintEvent: square i (at index i + 1 of drawn) gets the green overlay with
\* the intensity of its points when it has points, and the highlight with the
\* current opacity when it is the hovered square and has points; -1 stands
\* for a layer that is not drawn.  color_value keeps the last value computed.
PaintEvent ==
    /\ app = "running"
    /\ drawn' = [k \in 1..7 |->
           LET points == SquarePoints(k - 1) IN
           [overlay |-> IF points > 0
                        THEN color_intensity(points, target_points_per_day)
                        ELSE -1,
            highlight |-> IF k - 1 = hovered_square /\ points > 0
                          THEN highlight_opacity
                          ELSE -1]]
    /\ color_value' =
           IF PaintedWithPoints = {} THEN color_value
           ELSE drawn'[1 + CHOOSE i \in PaintedWithPoints :
                               \A k \in PaintedWithPoints : k <= i].overlay
    /\ UNCHANGED <<app, dbVars, points_per_day, points_data, target_points_per_day,
                   current_week_start, geometryVars, weekVars, clickVars, hoverVars, callVars>>

\* mouseMoveEvent with the pointer at (x, y)
MouseMoveEvent(x, y) ==
    LET square_index == SquareIndex(width, height, x) IN
    /\ app = "running"
    /\ mouse' = <<x, y>>
    /\ IF InBand(width, height, y)
       THEN IF 0 <= square_index /\ square_index < 7
            THEN /\ tooltip' = <<SquareDate(square_index), SquarePoints(square_index)>>
                 /\ IF hovered_square # square_index
                    THEN /\ hovered_square' = square_index
                         /\ highlight_opacity' = 0
                         /\ fade_in_timer' =
                                IF SquarePoints(square_index) > 0 THEN TRUE
                                ELSE fade_in_timer
                    ELSE UNCHANGED <<hovered_square, highlight_opacity, fade_in_timer>>
            ELSE /\ hovered_square' = -1
                 /\ highlight_opacity' = 0
                 /\ fade_in_timer' = FALSE
                 /\ UNCHANGED tooltip
       ELSE /\ tooltip' = <<>>
            /\ hovered_square' = -1
            /\ highlight_opacity' = 0
            /\ fade_in_timer' = FALSE
    /\ UNCHANGED <<app, dbVars, points_per_day, points_data, target_points_per_day,
                   current_week_start, geometryVars, weekVars, clickVars, paintVars, callVars>>

\* fade_in, called on every timeout of the running fade_in_timer
FadeIn ==
    /\ app = "running"
    /\ fade_in_timer
    /\ highlight_opacity' =
           IF highlight_opacity + FadeStep > MaxOpacity THEN MaxOpacity
           ELSE highlight_opacity + FadeStep
    /\ UNCHANGED <<app, dbVars, points_per_day, points_data, target_points_per_day,
                   current_week_start, geometryVars, weekVars, clickVars, paintVars, mouse,
                   hovered_square, fade_in_timer, tooltip, callVars>>

\* ------------------------------------------------------------------ start
\* the store as initialize_database leaves it when it returns
initialize_database(store) ==
    IF ~store.file
    THEN [file |-> TRUE, table |-> TRUE, rows |-> store.rows]
    ELSE store

Store == [file |-> db_file, table |-> db_table, rows |-> db_rows]

\* the window before it is constructed
NoWindow ==
    /\ points_data = EmptyDict
    /\ target_points_per_day = 0
    /\ current_week_start = 0
    /\ color_value = 0
    /\ drawn = <<>>
    /\ mouse = NoMouse
    /\ hovered_square = -1
    /\ highlight_opacity = 0
    /\ fade_in_timer = FALSE
    /\ tooltip = <<>>
    /\ nexts = 0
    /\ previouses = 0
    /\ date_entry = <<>>
    /\ press = NoPress
    /\ dialogs = <<>>
    /\ connected = FALSE
    /\ last = NoCall

Init ==
    /\ app = "stopped"
    /\ db_file = FALSE
    /\ db_table = FALSE
    /\ db_rows = <<>>
    /\ points_per_day = DefaultPointsPerDay
    /\ width = MinimumWidth
    /\ height = MinimumHeight
    /\ NoWindow

\* PointsTracker.__init__, first statement.  With fault = "create" the file
\* has been created by sqlite3.connect and the CREATE TABLE or its commit
\* raises: the exception ends the process.
InitializeDatabase(fault) ==
    /\ app = "stopped"
    /\ fault = "create" => ~db_file
    /\ IF fault = "create"
       THEN /\ db_file' = TRUE
            /\ db_table' = FALSE
            /\ db_rows' = db_rows
            /\ app' = "stopped"
       ELSE /\ db_file' = initialize_database(Store).file
            /\ db_table' = initialize_database(Store).table
            /\ db_rows' = initialize_database(Store).rows
            /\ app' = "initialized"
    /\ UNCHANGED <<points_per_day, points_data, target_points_per_day,
                   current_week_start, geometryVars, weekVars, clickVars, paintVars,
                   hoverVars, callVars>>

\* the rest of PointsTracker.__init__: init_ui constructs the heatmap, then
\* update_points_display() reads the table; its SELECT raises
\* OperationalError when the table is missing, which ends the process
StartDisplay ==
    /\ app = "initialized"
    /\ IF db_table
       THEN /\ current_week_start' = WeekStart(Today)
            /\ points_data' = RowsToDict(db_rows)
            /\ target_points_per_day' = points_per_day
            /\ nexts' = 0
            /\ previouses' = 0
            /\ date_entry' = strftime(Today)
            /\ press' = NoPress
            /\ app' = "running"
       ELSE /\ UNCHANGED <<current_week_start, points_data, target_points_per_day,
                           weekVars, clickVars>>
            /\ app' = "stopped"
    /\ UNCHANGED <<dbVars, points_per_day, geometryVars, paintVars, hoverVars, callVars>>

\* closeEvent: the process ends, the files stay
CloseWindow ==
    /\ app = "running"
    /\ app' = "stopped"
    /\ points_data' = EmptyDict
    /\ target_points_per_day' = 0
    /\ current_week_start' = 0
    /\ UNCHANGED <<dbVars, points_per_day, geometryVars, paintVars, hoverVars,
                   weekVars, clickVars, callVars>>

\* open_preferences, accepted with the points spin box at goal; the heatmap's
\* target is not set here
OpenPreferences(goal) ==
    /\ app = "running"
    /\ points_per_day' = goal
    /\ UNCHANGED <<app, dbVars, points_data, target_points_per_day,
                   current_week_start, geometryVars, weekVars, clickVars, paintVars,
                   hoverVars, callVars>>

shift_week_resnap(week_start, weeks) == WeekStart(Today) + 7 * weeks

\* current_week_start + timedelta(weeks=weeks): 7 days a week, the time of
\* day kept
shift_week(week_start, weeks) == week_start + 7 * weeks

\* show_previous_week with its set_week_start and update_points_display
ShowPreviousWeek ==
    /\ app = "running"
    /\ previouses < MaxShifts
    /\ current_week_start' = shift_week(current_week_start, -1)
    /\ previouses' = previouses + 1
    /\ points_data' = RowsToDict(db_rows)
    /\ target_points_per_day' = points_per_day
    /\ UNCHANGED <<app, dbVars, points_per_day, geometryVars, paintVars, hoverVars,
                   nexts, clickVars, callVars>>

\* show_next_week with its set_week_start and update_points_display
ShowNextWeek ==
    /\ app = "running"
    /\ nexts < MaxShifts
    /\ current_week_start' = shift_week(current_week_start, 1)
    /\ nexts' = nexts + 1
    /\ points_data' = RowsToDict(db_rows)
    /\ target_points_per_day' = points_per_day
    /\ UNCHANGED <<app, dbVars, points_per_day, geometryVars, paintVars, hoverVars,
                   previouses, clickVars, callVars>>

\* the Add Points and Remove Points buttons, pressed with date in the date
\* field and points in the points field: update_points(operation)
UpdatePoints(operation, date, points, fault) ==
    LET r == update_points(db_rows, operation, date, points, fault) IN
    /\ app = "running"
    /\ FaultApplies(db_rows, operation, date, points, fault)
    /\ WithinBounds(r.rows)
    /\ db_rows' = r.rows
    /\ dialogs' = r.dialogs
    /\ connected' = r.connected
    /\ last' = Call(operation, date, points, fault, db_rows, JustAdded(last, date))
    /\ IF r.refreshed
       THEN /\ points_data' = RowsToDict(r.rows)
            /\ target_points_per_day' = points_per_day
       ELSE UNCHANGED <<points_data, target_points_per_day>>
    /\ IF r.raised
       THEN app' \in {"running", "stopped"}
       ELSE app' = app
    /\ date_entry' = date
    /\ UNCHANGED <<db_file, db_table, points_per_day, current_week_start,
                   geometryVars, paintVars, hoverVars, weekVars, press>>

\* the keyboard modifiers and mouse buttons of a press
Modifiers == {"ctrl", "shift"}

Buttons == {"left", "right", "middle"}

Press(square, modifiers, button, before) ==
    [square |-> square, modifiers |-> modifiers, button |-> button,
     before |-> before]

\* line 252, event.modifiers() and Qt.ControlModifier: the value of the and
\* is the flags when they are empty (false) and Qt.ControlModifier, a
\* non-zero constant (true), when any modifier is held
modifiers_and_control(modifiers) == modifiers # {}

\* mousePressEvent at (x, y) with the modifiers held and the button pressed,
\* while the points field holds points.  On a square it calls
\* update_points(operation, date), which runs whole before the handler
\* returns, or set_date(date).
MousePressEvent(x, y, modifiers, button, points) ==
    LET square_index == SquareIndex(width, height, x)
        on_square == /\ InBand(width, height, y)
                     /\ 0 <= square_index /\ square_index < 7
        date == SquareDate(square_index)
        operation == IF button = "right" THEN -1 ELSE 1
        r == update_points(db_rows, operation, date, points, "none")
    IN
    /\ app = "running"
    /\ on_square /\ modifiers_and_control(modifiers) => WithinBounds(r.rows)
    /\ press' = Press(IF on_square THEN square_index ELSE -1, modifiers, button,
                      db_rows)
    /\ IF on_square /\ modifiers_and_control(modifiers)
       THEN /\ db_rows' = r.rows
            /\ dialogs' = r.dialogs
            /\ connected' = r.connected
            /\ last' = Call(operation, date, points, "none", db_rows,
                            JustAdded(last, date))
            /\ IF r.refreshed
               THEN /\ points_data' = RowsToDict(r.rows)
                    /\ target_points_per_day' = points_per_day
               ELSE UNCHANGED <<points_data, target_points_per_day>>
            /\ UNCHANGED date_entry
       ELSE /\ date_entry' = IF on_square THEN date ELSE date_entry
            /\ UNCHANGED <<db_rows, points_data, target_points_per_day, callVars>>
    /\ UNCHANGED <<app, db_file, db_table, points_per_day, current_week_start,
                   geometryVars, paintVars, hoverVars, weekVars>>

Next ==
    \/ \E fault \in {"none", "create"} : InitializeDatabase(fault)
    \/ StartDisplay
    \/ CloseWindow
    \/ \E operation \in {1, -1}, date \in DateInputs, points \in PointsInputs :
           UpdatePoints(operation, date, points, "none")

Spec == Init /\ [][Next]_vars

\* the same program with database errors: any statement of update_points
\* may raise sqlite3.Error
FaultDateInputs == { DateText(2024, 2, 29, TRUE) }

NextFault ==
    \/ InitializeDatabase("none")
    \/ StartDisplay
    \/ \E operation \in {1, -1}, date \in FaultDateInputs,
          points \in PointsInputs \ BadTexts, fault \in Faults :
           UpdatePoints(operation, date, points, fault)

SpecFault == Init /\ [][NextFault]_vars

\* -------------------------------------------------------- week navigation
\* the window with its two week buttons and the Add and Remove buttons
NextWeek ==
    \/ InitializeDatabase("none")
    \/ StartDisplay
    \/ ShowPreviousWeek
    \/ ShowNextWeek
    \/ \E operation \in {1, -1}, date \in FaultDateInputs,
          points \in PointsInputs \ BadTexts :
           UpdatePoints(operation, date, points, "none")

SpecWeek == Init /\ [][NextWeek]_vars

\* ------------------------------------------------- pressing on the squares
\* presses in the middle of Thursday's square, left of the row and above the
\* band
PressXInputs(w, h) ==
    {0, StartX(w, h) + 3 * (SquareSize(w, h) + Spacing) + SquareSize(w, h) \div 2}

PressYInputs(w, h) == {0, TopY(w, h) + SquareSize(w, h) \div 2}

NextPress ==
    \/ InitializeDatabase("none")
    \/ StartDisplay
    \/ \E x \in PressXInputs(width, height), y \in PressYInputs(width, height),
          modifiers \in SUBSET Modifiers, button \in Buttons,
          points \in PointsInputs \ BadTexts :
           MousePressEvent(x, y, modifiers, button, points)

SpecPress == Init /\ [][NextPress]_vars

\* ----------------------------------------------------- painting the squares
\* The running window with one record in the ledger, for Thursday of the week
\* shown, and any target up to MaxGoal: the states paintEvent is checked in.
MaxCellPoints == 25
MaxGoal == 31

PreferenceGoals == {0, DefaultPointsPerDay}

InitPaint ==
    \E points \in 0..MaxCellPoints, goal \in 0..MaxGoal :
        /\ app = "running"
        /\ db_file = TRUE
        /\ db_table = TRUE
        /\ db_rows = <<Row(strftime(Today), points)>>
        /\ points_per_day = goal
        /\ points_data = RowsToDict(db_rows)
        /\ target_points_per_day = goal
        /\ current_week_start = WeekStart(Today)
        /\ width = MinimumWidth
        /\ height = MinimumHeight
        /\ color_value = 0
        /\ drawn = <<>>
        /\ mouse = NoMouse
        /\ hovered_square = -1
        /\ highlight_opacity = 0
        /\ fade_in_timer = FALSE
        /\ tooltip = <<>>
        /\ nexts = 0
        /\ previouses = 0
        /\ date_entry = strftime(Today)
        /\ press = NoPress
        /\ dialogs = <<>>
        /\ connected = FALSE
        /\ last = NoCall

NextPaint ==
    \/ PaintEvent
    \/ \E goal \in PreferenceGoals : OpenPreferences(goal)

SpecPaint == InitPaint /\ [][NextPaint]_vars

\* ------------------------------------------------------ moving the pointer
\* The running window at several sizes, with 2 points on Thursday of the
\* week shown.  The pointer is put on the first and last pixel of every
\* square and of the gap after it, next to the row and at the band's edges.
Widths == {MinimumWidth, 420}

Heights == {MinimumHeight, 45}

XInputs(w, h) ==
    { x \in {0, w - 1, StartX(w, h) - 1,
             StartX(w, h) + 7 * (SquareSize(w, h) + Spacing)}
            \cup { StartX(w, h) + i * (SquareSize(w, h) + Spacing) + o :
                       i \in 0..6,
                       o \in {0, SquareSize(w, h) - 1, SquareSize(w, h),
                              SquareSize(w, h) + Spacing - 1} } :
        0 <= x /\ x < w }

YInputs(w, h) ==
    { y \in {TopY(w, h) - 1, TopY(w, h), TopY(w, h) + SquareSize(w, h) - 1,
             TopY(w, h) + SquareSize(w, h)} :
        0 <= y /\ y < h }

InitHover ==
    \E w \in Widths, h \in Heights :
        /\ app = "running"
        /\ db_file = TRUE
        /\ db_table = TRUE
        /\ db_rows = <<Row(strftime(Today), 2)>>
        /\ points_per_day = DefaultPointsPerDay
        /\ points_data = RowsToDict(db_rows)
        /\ target_points_per_day = DefaultPointsPerDay
        /\ current_week_start = WeekStart(Today)
        /\ width = w
        /\ height = h
        /\ color_value = 0
        /\ drawn = <<>>
        /\ mouse = NoMouse
        /\ hovered_square = -1
        /\ highlight_opacity = 0
        /\ fade_in_timer = FALSE
        /\ tooltip = <<>>
        /\ nexts = 0
        /\ previouses = 0
        /\ date_entry = strftime(Today)
        /\ press = NoPress
        /\ dialogs = <<>>
        /\ connected = FALSE
        /\ last = NoCall

NextHover ==
    \/ \E x \in XInputs(width, height), y \in YInputs(width, height) :
           MouseMoveEvent(x, y)
    \/ FadeIn

SpecHover == InitHover /\ [][NextHover]_vars

\* ================================================================== claims
\* the records of one date, in table order
RecordsOf(rows, date) == SelectSeq(rows, LAMBDA r : r.date = date)

\* the dates that have a record
DatesOf(rows) == { rows[i].date : i \in 1..Len(rows) }

OthersUnchanged(rows, before, date) ==
    \A e \in (DatesOf(rows) \cup DatesOf(before)) \ {date} :
        RecordsOf(rows, e) = RecordsOf(before, e)

Shown(kind) == \E i \in 1..Len(dialogs) : dialogs[i] = kind

\* the texts of the model that are not valid inputs, listed one by one
InvalidDateTexts == { DateText(2024, 2, 30, TRUE), DateText(2023, 2, 29, TRUE) }

InvalidAmountTexts == { <<>>, <<"-", "1">> }

\* C1: every record of the ledger has points > 0, in every state reached by
\* add and remove operations with amounts 0..10000.
C1_EveryRecordPositive ==
    \A i \in 1..Len(db_rows) : db_rows[i].points > 0

C4_AddThenRemove ==
    /\ (Applied(last) /\ last.operation = 1 /\ int(last.points) > 0
            /\ RecordsOf(last.before, last.date) = <<>>)
        => /\ RecordsOf(db_rows, last.date) = <<Row(last.date, int(last.points))>>
           /\ OthersUnchanged(db_rows, last.before, last.date)
    /\ (Applied(last) /\ last.operation = -1 /\ last.added > 0
            /\ int(last.points) > 0 /\ int(last.points) <= last.added)
        => /\ IF last.added > int(last.points)
              THEN RecordsOf(db_rows, last.date)
                       = <<Row(last.date, last.added - int(last.points))>>
              ELSE RecordsOf(db_rows, last.date) = <<>>
           /\ OthersUnchanged(db_rows, last.before, last.date)

\* C4 witness: a remove of p2 right after the add of p1 > p2 that created the
\* record, while another date has a record.
C4_Witness ==
    /\ Applied(last)
    /\ last.operation = -1
    /\ int(last.points) > 0
    /\ last.added > int(last.points)
    /\ Len(db_rows) = 2

\* C5: a remove on a date without a record leaves the ledger unchanged and
\* never shows a success or deletion message; when the call passes the input
\* checks and no database error occurs, the one message shown is the warning
\* "No points recorded for this date."
C5_RemoveAbsentIsNoOp ==
    (last.operation = -1 /\ RecordsOf(last.before, last.date) = <<>>)
        => /\ db_rows = last.before
           /\ ~Shown("Updated") /\ ~Shown("Deleted") /\ ~Shown("Added")
           /\ (last.date \notin InvalidDateTexts
               /\ last.points \notin InvalidAmountTexts
               /\ last.fault = "none") => dialogs = <<"NoPoints">>

\* C5 witness: a remove with valid input on a date without a record, in a
\* ledger that holds a record of another date.
C5_Witness ==
    /\ Applied(last)
    /\ last.operation = -1
    /\ RecordsOf(last.before, last.date) = <<>>
    /\ Len(db_rows) >= 1
    /\ dialogs = <<"NoPoints">>

\* C6: an add or remove with an invalid calendar date (2024-02-30) ends with
\* the InvalidDate message alone, one with a valid date and an amount that is
\* not a string of digits ends with the InvalidAmount message alone; in both
\* cases points.db is not opened and the ledger and the heatmap's mapping
\* are as before.
C6_InvalidInputRejected ==
    /\ (last.operation # 0 /\ last.date \in InvalidDateTexts)
        => /\ dialogs = <<"InvalidDate">>
           /\ ~connected
           /\ db_rows = last.before
    /\ (last.operation # 0 /\ last.date \notin InvalidDateTexts
            /\ last.points \in InvalidAmountTexts)
        => /\ dialogs = <<"InvalidAmount">>
           /\ ~connected
           /\ db_rows = last.before
    /\ (last.operation # 0 /\ ~connected /\ app = "running")
        => points_data = RowsToDict(last.before)

\* C6 witness: an add for 2024-02-30 was rejected while the ledger holds
\* records.
C6_Witness ==
    /\ last.operation = 1
    /\ last.date = DateText(2024, 2, 30, TRUE)
    /\ dialogs = <<"InvalidDate">>
    /\ Len(db_rows) >= 1

\* C7: whenever an add or remove ends with the storage-failure message, at
\* whichever statement the database error was raised (the refresh of the
\* display after the commit included), the ledger equals the ledger before
\* the operation.
C7_StorageFailureLeavesLedger ==
    (last.operation # 0 /\ Shown("StorageFailure")) => db_rows = last.before

\* C8: when initialize_database has returned, points.db and its points table
\* both exist, and calling it again changes nothing.
C8_InitializeLeavesSchema ==
    app = "initialized"
        => /\ db_file
           /\ db_table
           /\ initialize_database(Store) = Store

\* ----------------------------------------------------------------------
\* the squares painted with points by the last paintEvent
Painted == { k \in 1..Len(drawn) : SquarePoints(k - 1) > 0 }

\* min(155, floor(155 * points / target)) in exact arithmetic
ExactFloor(points, target) ==
    IF (MaxIntensity * points) \div target < MaxIntensity
    THEN (MaxIntensity * points) \div target
    ELSE MaxIntensity

\* C9 as stated: for every day cell with points > 0 the intensity drawn is
\* round(points / dailyGoal * 155) clamped to 0..155 when dailyGoal > 0
\* (78 for 5 points of 10), and 0 when dailyGoal = 0.
C9_IntensityIsRounded ==
    \A k \in Painted :
        drawn[k].overlay = color_intensity_rounded(SquarePoints(k - 1),
                                                   target_points_per_day)

\* C9 amended: for every day cell with points > 0 the intensity drawn is
\* within 0..155; it is 0 when the heatmap's daily goal is 0; when the goal
\* is positive it is the truncation of the double (points / goal) * 155
\* capped at 155: min(155, floor(155 * points / goal)), or one less than that
\* only where 155 * points / goal is a whole number that the double product
\* falls short of (104 for 21 points of 31).  5 points of 10 give 77 and
\* 20 points of 10 give 155.
C9_IntensityIsTruncated ==
    \A k \in Painted :
        LET points == SquarePoints(k - 1)
            goal == target_points_per_day
            intensity == drawn[k].overlay
        IN  /\ intensity \in 0..MaxIntensity
            /\ goal = 0 => intensity = 0
            /\ goal > 0 =>
                   \/ intensity = ExactFloor(points, goal)
                   \/ /\ intensity = ExactFloor(points, goal) - 1
                      /\ (MaxIntensity * points) % goal = 0
            /\ goal = 10 /\ points = 5 => intensity = 77
            /\ goal = 10 /\ points = 20 => intensity = 155
            /\ goal = 31 /\ points = 21 => intensity = 104

C9_Witness ==
    /\ target_points_per_day = 10
    /\ \E k \in Painted : SquarePoints(k - 1) = 5 /\ drawn[k].overlay = 77

\* the first x after the seventh square: rowStartX + 7 * size + 6 * spacing
RowEnd(w, h) == StartX(w, h) + 7 * SquareSize(w, h) + 6 * Spacing

\* C10: after a mouseMoveEvent at (x, y) the square hit is
\* floor((x - rowStartX) / (size + spacing)) when y is in [y0, y0 + size), the
\* index is in [0, 7) and x is before the end of the row, and none (-1) when
\* y is outside the band, x is left of the row, or x is in the gap after the
\* seventh square or beyond.
C10_HitTestRejectsTrailingGap ==
    mouse # NoMouse =>
        LET x == mouse[1]
            y == mouse[2]
            index == SquareIndex(width, height, x)
        IN  IF /\ InBand(width, height, y)
               /\ 0 <= index /\ index < 7
               /\ x < RowEnd(width, height)
            THEN hovered_square = index
            ELSE hovered_square = -1

\* C11: while the window runs, the week anchor is the original anchor plus
\* 7 * (number of show_next_week - number of show_previous_week) days, so the
\* window starts on the weekday of the original anchor and as many next as
\* previous restore the original anchor; adds and removes, which change
\* neither count, leave the anchor where it is.
C11_AnchorShiftsByWholeWeeks ==
    app = "running" =>
        /\ current_week_start = WeekStart(Today) + 7 * (nexts - previouses)
        /\ weekday(current_week_start) = weekday(WeekStart(Today))
        /\ nexts = previouses => current_week_start = WeekStart(Today)

\* C11 witness: two next and one previous, then an add that went through
C11_Witness ==
    /\ app = "running"
    /\ nexts = 2
    /\ previouses = 1
    /\ current_week_start = WeekStart(Today) + 7
    /\ Applied(last)
    /\ last.operation = 1
    /\ int(last.points) > 0

\* C12: after a mouse press on a square without CTRL held, whatever other
\* modifiers or button, the ledger is as it was before the press and the date
\* field holds that square's date.
C12_PressWithoutCtrlOnlySelects ==
    (press.square # -1 /\ "ctrl" \notin press.modifiers) =>
        /\ db_rows = press.before
        /\ date_entry = SquareDate(press.square)

\* C13: the highlight opacity stays within 0..255 and is 0 whenever no square
\* is hovered, and every step that changes the hovered square (to another
\* square or to none) leaves the opacity at 0 and the fade timer stopped,
\* unless the new square has points > 0, for which it is started.
C13_HoverChangeCancelsFade ==
    /\ [](highlight_opacity \in 0..MaxOpacity)
    /\ [](hovered_square = -1 => highlight_opacity = 0)
    /\ [][hovered_square' # hovered_square =>
            /\ highlight_opacity' = 0
            /\ fade_in_timer' =>
                   /\ hovered_square' # -1
                   /\ SquarePoints(hovered_square') > 0]_vars


====
